---- MODULE Spec2Model ----
(***************************************************************************)
(* Session orchestration of the quarto backend: socket/handler.py,         *)
(* game/game.py, game/agent_handler.py and db.py.                          *)
(*                                                                         *)
(* Every socket handler is a coroutine.  A handler runs without            *)
(* interruption from one awaited transport or network call to the next;    *)
(* at such a call it may be suspended while other handlers run.  One step  *)
(* of the model is one such uninterrupted block: the entry of a handler    *)
(* up to its first awaited emit / HTTP request, or the resumption of a     *)
(* suspended handler up to its next one.  enter_room / leave_room are      *)
(* completed inside the block that calls them; every sio.emit and every    *)
(* httpx request ends a block.                                             *)
(***************************************************************************)
EXTENDS Integers, Sequences, FiniteSets, Bags, TLC

\* ------------------------------------------------------------------ bounds
NumClients == 2
MaxGames == 2
MaxTasks == 2
MaxStarted == 1
MaxKeys == 2
MaxValues == 2

\* --------------------------------------------------------------- identities
None == 0
Clients == 1..NumClients
AgentId == NumClients + 1
GameIds == 1..MaxGames

\* ------------------------------------------------------------------ engine
\* quarto_lib.Game scaled down: three cells, three pieces with two binary
\* attributes each, one line (cells 1 and 2).  A line wins when it is full and
\* its pieces agree on some attribute.  Pieces 1 and 3 agree on nothing.
Cells == {1, 2, 3}
Pieces == {1, 2, 3}
NoPiece == 0
NoWinner == 2
Lines == {{1, 2}}
PieceBits == [p \in Pieces |-> CASE p = 1 -> <<0, 0>> [] p = 2 -> <<0, 1>> [] OTHER -> <<1, 1>>]

NewEngine ==
    [board |-> [c \in Cells |-> NoPiece], piece |-> NoPiece, avail |-> Pieces,
     cur |-> 0, turn |-> "CHOICE", winner |-> NoWinner]

LineWins(b, l) ==
    /\ \A c \in l : b[c] # NoPiece
    /\ \E i \in 1..2 : \A c, d \in l : PieceBits[b[c]][i] = PieceBits[b[d]][i]

BoardWins(b) == \E l \in Lines : LineWins(b, l)

AvailableCells(e) == {c \in Cells : e.board[c] = NoPiece}

EngineOver(e) == e.winner # NoWinner \/ AvailableCells(e) = {}

\* refuse: whether the engine itself refuses moves on a finished game (the
\* orchestrator's source does not show which; it is fixed for a whole run and
\* both are explored).
ChooseAccepted(e, p, refuse) ==
    /\ e.turn = "CHOICE"
    /\ p \in e.avail
    /\ refuse => ~EngineOver(e)

EngineChoose(e, p) ==
    [e EXCEPT !.piece = p, !.avail = @ \ {p}, !.cur = 1 - @, !.turn = "PLACEMENT"]

PlaceAccepted(e, c, refuse) ==
    /\ e.turn = "PLACEMENT"
    /\ c \in Cells
    /\ e.board[c] = NoPiece
    /\ e.piece # NoPiece
    /\ refuse => ~EngineOver(e)

EnginePlace(e, c) ==
    LET b == [e.board EXCEPT ![c] = e.piece]
    IN  [e EXCEPT !.board = b, !.piece = NoPiece, !.turn = "CHOICE",
                  !.winner = IF BoardWins(b) THEN e.cur ELSE @]

\* -------------------------------------------------------------------- Game
NewGameObject ==
    [players |-> <<None, None>>, started |-> FALSE, pve |-> FALSE, eng |-> NewEngine]

HasPlayer(g, pid) == \E i \in 1..2 : g.players[i] = pid
IsFull(g) == \A i \in 1..2 : g.players[i] # None
IsEmpty(g) == \A i \in 1..2 : g.players[i] = None

FirstSeat(g, pid) == CHOOSE i \in 1..2 : g.players[i] = pid /\ \A j \in 1..(i-1) : g.players[j] # pid

\* Game.join after its two guards: the first free seat
JoinSeat(g, pid) ==
    LET i == FirstSeat(g, None) IN [g EXCEPT !.players[i] = pid]

\* Game.leave after its guard: the first seat holding pid
LeaveSeat(g, pid) ==
    LET i == FirstSeat(g, pid) IN [g EXCEPT !.players[i] = None]

\* Game.start once full: a no-op when started, else a random order of the two
StartGameObject(g, swap) ==
    IF g.started THEN g
    ELSE [g EXCEPT !.started = TRUE,
                   !.players = IF swap THEN <<@[2], @[1]>> ELSE @]

CurrentPlayer(g) == IF ~g.started THEN None ELSE g.players[g.eng.cur + 1]

Winner(g) == IF g.eng.winner = NoWinner THEN None ELSE g.players[g.eng.winner + 1]

\* -------------------------------------------------------------- InMemoryDB
\* The registry class by itself, over small keys and values.  _data is a
\* function from every key to its value, None for a key that is not in the
\* dict.
Keys == 1..MaxKeys
Values == 1..MaxValues

NoData == [k \in Keys |-> None]

DbCreate(data, k, v) ==
    IF data[k] # None THEN [exc |-> "KeyError", data |-> data, ret |-> None]
    ELSE [exc |-> "none", data |-> [data EXCEPT ![k] = v], ret |-> None]

DbRead(data, k) == [exc |-> "none", data |-> data, ret |-> data[k]]

DbUpdate(data, k, v) ==
    IF data[k] = None THEN [exc |-> "KeyError", data |-> data, ret |-> None]
    ELSE [exc |-> "none", data |-> [data EXCEPT ![k] = v], ret |-> None]

DbDelete(data, k) ==
    IF data[k] = None THEN [exc |-> "KeyError", data |-> data, ret |-> None]
    ELSE [exc |-> "none", data |-> [data EXCEPT ![k] = None], ret |-> None]

\* What list_all returns: a dict object.  live tells whether it is the very
\* dict _data (then it shows every later change) or a dict of its own with the
\* items it was given.
NoCopy == [taken |-> FALSE, live |-> FALSE, items |-> NoData]

\* list_all returning self._data itself: a deliberately wrong version, which
\* the registry property must tell from DbListAll.
DbListAllLive(data) == [taken |-> TRUE, live |-> TRUE, items |-> data]

\* self._data.copy()
DbListAll(data) == [taken |-> TRUE, live |-> FALSE, items |-> data]

\* the items a returned dict shows while _data is data
View(d, data) == IF d.live THEN data ELSE d.items

\* ------------------------------------------------------------------- state
VARIABLES
    games,       \* every Game object ever constructed, by id
    nextId,      \* number of Game objects constructed so far
    db,          \* InMemoryDB: the ids currently registered
    rooms,       \* socket.io rooms: room id -> sids
    connected,   \* sids whose transport is still connected
    agent,       \* AGENT_ENDPOINT is configured
    strict,      \* the engine refuses moves on a finished game
    tasks,       \* suspended handlers (a bag of task records)
    emitted,     \* the events emitted by the last step, in order
    last,        \* what the last step was
    startedSent, \* per room: number of game-started events sent (capped)
    store,       \* an InMemoryDB on its own: its _data, key -> value or None
    snapshot,    \* the dict the last list_all returned
    result       \* the last call made on store and how it ended

registry == <<store, snapshot, result>>

vars == <<games, nextId, db, rooms, connected, agent, strict, tasks, emitted, last, startedSent,
          store, snapshot, result>>

\* The part of the state a block of handler code reads and writes.
Ctx == [games |-> games, nextId |-> nextId, db |-> db, rooms |-> rooms,
        out |-> <<>>, sent |-> startedSent]

\* db.list_all().values(): dict order is insertion order, ids are handed out
\* in increasing order and never re-inserted, so it is increasing id order.
RECURSIVE SortedSeq(_)
SortedSeq(S) ==
    IF S = {} THEN <<>>
    ELSE LET m == CHOOSE x \in S : \A y \in S : x <= y
         IN  <<m>> \o SortedSeq(S \ {m})

ListAll(c) == SortedSeq(c.db)

\* ------------------------------------------------------------------- tasks
\* pc: where the handler is suspended; g: the game it works on; lg, todo: the
\* game leave_games is leaving and the ones still to leave; ret: the caller
\* a shared coroutine returns to.
NoTask ==
    [sid |-> None, pc |-> "done", g |-> 0, lg |-> 0, todo |-> <<>>, ret |-> "none"]

NewTask(sid) == [NoTask EXCEPT !.sid = sid, !.pc = "run"]

Suspend(c, t, pc) == [c |-> c, t |-> [t EXCEPT !.pc = pc], exc |-> "none"]
Finish(c) == [c |-> c, t |-> NoTask, exc |-> "none"]
Raise(c, e) == [c |-> c, t |-> NoTask, exc |-> e]

\* ------------------------------------------------------------------- emits
NoSnap ==
    [turn |-> "none", actor |-> None, piece |-> NoPiece, board |-> <<>>, avail |-> {},
     over |-> FALSE, winner |-> None]

\* the payload emit_game_state_update builds
Snapshot(g) ==
    [turn |-> g.eng.turn, actor |-> CurrentPlayer(g), piece |-> g.eng.piece,
     board |-> g.eng.board, avail |-> g.eng.avail, over |-> EngineOver(g.eng),
     winner |-> Winner(g)]

\* live: the room's session is registered at the moment of the emit
Event(c, ev, to, room, key, players, snap) ==
    [ev |-> ev, to |-> to, room |-> room, key |-> key, players |-> players,
     snap |-> snap, live |-> room \in c.db]

Emit(c, e) == [c EXCEPT !.out = Append(@, e)]

EmitError(c, sid, key) == Emit(c, Event(c, "error", sid, 0, key, <<>>, NoSnap))

EmitGameStateUpdate(c, gid) ==
    Emit(c, Event(c, "game-state-updated", None, gid, "", <<>>, Snapshot(c.games[gid])))

Bump(n) == IF n < 2 THEN n + 1 ELSE n

EmitGameStarted(c, gid) ==
    LET c1 == Emit(c, Event(c, "game-started", None, gid, "", <<>>, NoSnap))
    IN  [c1 EXCEPT !.sent[gid] = Bump(@)]

\* ------------------------------------------------------------- leave_games
\* join_game after its awaited leave_games
JoinAfterLeave(c, t) ==
    LET g == c.games[t.g] IN
    IF HasPlayer(g, t.sid) \/ IsFull(g) THEN Raise(c, "ValueError")
    ELSE LET c1 == [c EXCEPT !.games[t.g] = JoinSeat(g, t.sid),
                             !.rooms[t.g] = @ \cup {t.sid}]
             c2 == Emit(c1, Event(c1, "player-joined", None, t.g, "", <<>>, NoSnap))
         IN  Suspend(c2, t, "JG_joined")

\* join_game resumed after the player-joined emit
JoinGameJoined(c, t) ==
    Finish(Emit(c, Event(c, "game-joined", t.sid, t.g, "", c.games[t.g].players, NoSnap)))

LeaveReturn(c, t) ==
    IF t.ret = "join" THEN JoinAfterLeave(c, t) ELSE Finish(c)

\* the head of the loop over games: leave the next one and emit game-left
LeaveNext(c, t) ==
    IF t.todo = <<>> THEN LeaveReturn(c, t)
    ELSE LET gid == Head(t.todo)
             g == c.games[gid] IN
         IF ~HasPlayer(g, t.sid) THEN Raise(c, "ValueError")
         ELSE LET c1 == [c EXCEPT !.games[gid] = LeaveSeat(g, t.sid),
                                  !.rooms[gid] = @ \ {t.sid}]
                  c2 == Emit(c1, Event(c1, "game-left", t.sid, gid, "", <<>>, NoSnap))
              IN  Suspend(c2, [t EXCEPT !.lg = gid, !.todo = Tail(@)], "LG_left")

\* leave_games resumed after the game-left emit, without its db.delete: a
\* deliberately wrong version, which the empty-session property must tell
\* from LeaveGameLeft.
LeaveGameLeftWithoutDelete(c, t) ==
    LET g == c.games[t.lg] IN
    IF IsEmpty(g) \/ g.pve THEN LeaveNext(c, t)
    ELSE LET c1 == Emit(c, Event(c, "player-left", None, t.lg, "", <<>>, NoSnap)) IN
         IF t.todo = <<>> /\ t.ret = "none" THEN Finish(c1)
         ELSE Suspend(c1, t, "LG_notified")

\* leave_games resumed after the game-left emit
LeaveGameLeft(c, t) ==
    LET g == c.games[t.lg] IN
    IF IsEmpty(g) \/ g.pve
    THEN IF t.lg \notin c.db THEN Raise(c, "KeyError")
         ELSE LeaveNext([c EXCEPT !.db = @ \ {t.lg}], t)
    ELSE LET c1 == Emit(c, Event(c, "player-left", None, t.lg, "", <<>>, NoSnap)) IN
         IF t.todo = <<>> /\ t.ret = "none" THEN Finish(c1)
         ELSE Suspend(c1, t, "LG_notified")

\* leave_games from its first line
LeaveGames(c, t) ==
    LET mine == SelectSeq(ListAll(c), LAMBDA gid : HasPlayer(c.games[gid], t.sid))
    IN  LeaveNext(c, [t EXCEPT !.todo = mine])

\* --------------------------------------------------------------- join_game
\* join_game from its first line
JoinGame(c, t) ==
    IF t.g \notin c.db THEN Finish(EmitError(c, t.sid, "ERR_GAME_NOT_FOUND"))
    ELSE IF IsFull(c.games[t.g]) THEN Finish(EmitError(c, t.sid, "ERR_GAME_FULL"))
    ELSE LeaveGames(c, [t EXCEPT !.ret = "join"])

\* -------------------------------------------------------------- agent_turn
\* Game.agent_turn up to its HTTP request
AgentTurn(c, t) ==
    LET g == c.games[t.g] IN
    IF ~g.pve THEN Raise(c, "ValueError")
    ELSE IF CurrentPlayer(g) # AgentId THEN Raise(c, "ValueError")
    ELSE IF g.eng.piece = NoPiece THEN Suspend(c, t, "AT_initial")
    ELSE Suspend(c, t, "AT_complete")

\* What the agent's endpoint can do with a request, and the exception the
\* httpx / pydantic call raises for it.
Failures == {"connect", "timeout", "status", "schema"}

ExceptionOf(kind) ==
    CASE kind = "connect" -> "RequestError"
      [] kind = "timeout" -> "RequestError"
      [] kind = "status"  -> "HTTPStatusError"
      [] kind = "schema"  -> "ValueError"
      [] OTHER            -> "none"

\* the except clauses of AgentHandler's three calls
CaughtByHandler(exc) == exc \in {"RequestError", "ValueError"}

\* what AgentHandler.choose_initial_piece / complete_turn / check_health raise
AgentCallRaises(kind) ==
    IF kind = "ok" THEN "none"
    ELSE IF CaughtByHandler(ExceptionOf(kind)) THEN "RuntimeError"
    ELSE ExceptionOf(kind)

\* self.choose_piece(piece) on the game's engine: the engine's ValueError or
\* the new context
GameChoosePiece(c, gid, p, refuse) ==
    LET e == c.games[gid].eng IN
    IF ChooseAccepted(e, p, refuse)
    THEN [ok |-> TRUE, c |-> [c EXCEPT !.games[gid].eng = EngineChoose(e, p)]]
    ELSE [ok |-> FALSE, c |-> c]

GamePlacePiece(c, gid, cell, refuse) ==
    LET e == c.games[gid].eng IN
    IF PlaceAccepted(e, cell, refuse)
    THEN [ok |-> TRUE, c |-> [c EXCEPT !.games[gid].eng = EnginePlace(e, cell)]]
    ELSE [ok |-> FALSE, c |-> c]

\* the handler's lines after "await game.agent_turn()"
AfterAgentTurn(c, t) == Finish(EmitGameStateUpdate(c, t.g))

\* random.choice(self.available_pieces) then choose_piece: rp is the drawn
\* piece, used only when there is one to draw
FallbackChoose(c, t, rp, refuse) ==
    IF c.games[t.g].eng.avail = {} THEN Raise(c, "IndexError")
    ELSE LET r == GameChoosePiece(c, t.g, rp, refuse) IN
         IF r.ok THEN AfterAgentTurn(r.c, t) ELSE Raise(r.c, "ValueError")

\* agent_turn resumed with the answer to choose-initial-piece
AgentInitialResume(c, t, kind, piece, rp, refuse) ==
    LET exc == AgentCallRaises(kind) IN
    IF exc = "none"
    THEN LET r == GameChoosePiece(c, t.g, piece, refuse) IN
         IF r.ok THEN AfterAgentTurn(r.c, t) ELSE Raise(r.c, "ValueError")
    ELSE IF exc = "RuntimeError" THEN FallbackChoose(c, t, rp, refuse)
    ELSE Raise(c, exc)

\* the except branch of complete-turn: rc, rp are the random draws
FallbackComplete(c, t, rc, rp, refuse) ==
    IF AvailableCells(c.games[t.g].eng) = {} THEN Raise(c, "IndexError")
    ELSE LET r == GamePlacePiece(c, t.g, rc, refuse) IN
         IF ~r.ok THEN Raise(r.c, "ValueError")
         ELSE IF Winner(r.c.games[t.g]) = None THEN FallbackChoose(r.c, t, rp, refuse)
         ELSE AfterAgentTurn(r.c, t)

\* agent_turn resumed with the answer to complete-turn
AgentCompleteResume(c, t, kind, cell, piece, rc, rp, refuse) ==
    LET exc == AgentCallRaises(kind) IN
    IF exc = "none"
    THEN LET r == GamePlacePiece(c, t.g, cell, refuse) IN
         IF ~r.ok THEN Raise(r.c, "ValueError")
         ELSE IF piece = NoPiece THEN AfterAgentTurn(r.c, t)
         ELSE LET q == GameChoosePiece(r.c, t.g, piece, refuse) IN
              IF q.ok THEN AfterAgentTurn(q.c, t) ELSE Raise(q.c, "ValueError")
    ELSE IF exc = "RuntimeError" THEN FallbackComplete(c, t, rc, rp, refuse)
    ELSE Raise(c, exc)

\* -------------------------------------------------------------- start_game
\* pve after its awaited start_game
PveAfterStart(c, t) ==
    IF CurrentPlayer(c.games[t.g]) # t.sid THEN AgentTurn(c, t) ELSE Finish(c)

\* an error return of start_game: the handler ends, or pve goes on
StartError(c, t, key) ==
    LET c1 == EmitError(c, t.sid, key) IN
    IF t.ret = "pve" THEN Suspend(c1, t, "SG_error") ELSE Finish(c1)

\* start_game from its first line
StartGame(c, t, swap) ==
    IF t.g \notin c.db THEN StartError(c, t, "ERR_GAME_NOT_FOUND")
    ELSE IF ~HasPlayer(c.games[t.g], t.sid) THEN StartError(c, t, "ERR_NOT_IN_GAME")
    ELSE IF ~IsFull(c.games[t.g]) THEN StartError(c, t, "ERR_NO_OPPONENT")
    ELSE LET c1 == [c EXCEPT !.games[t.g] = StartGameObject(@, swap)] IN
         IF CurrentPlayer(c1.games[t.g]) = None THEN StartError(c1, t, "ERR_INVALID_STATE")
         ELSE Suspend(EmitGameStarted(c1, t.g), t, "SG_started")

\* start_game resumed after the game-started emit
StartGameStarted(c, t) ==
    LET c1 == EmitGameStateUpdate(c, t.g) IN
    IF t.ret = "pve" THEN Suspend(c1, t, "SG_updated") ELSE Finish(c1)

\* ------------------------------------------------------- create_game, pve
\* pve after its awaited create_game, up to the health probe of setup_pve
PveAfterCreate(c, t) ==
    LET g == c.games[t.g] IN
    IF g.started THEN Finish(EmitError(c, t.sid, "ERR_GAME_ALREADY_STARTED"))
    ELSE IF IsFull(g) THEN Raise(c, "ValueError")
    ELSE Suspend(c, t, "PVE_health")

\* setup_pve resumed with the answer to the health probe, then start_game
PveHealthResume(c, t, kind, swap) ==
    LET exc == AgentCallRaises(kind)
        g == c.games[t.g] IN
    IF exc # "none" THEN Raise(c, exc)
    ELSE IF HasPlayer(g, AgentId) \/ IsFull(g) THEN Raise(c, "ValueError")
    ELSE LET c1 == [c EXCEPT !.games[t.g] = [JoinSeat(g, AgentId) EXCEPT !.pve = TRUE]]
         IN  StartGame(c1, t, swap)

CreateReturn(c, t) ==
    IF t.ret = "pve" THEN PveAfterCreate(c, t) ELSE Finish(c)

\* create_game without its search for a session of the caller: a
\* deliberately wrong version, which the new-game property must tell from
\* CreateGame.
CreateGameWithoutSearch(c, t) ==
    LET gid == IF c.nextId < MaxGames THEN c.nextId + 1 ELSE MaxGames
        c1 == [c EXCEPT !.nextId = gid,
                        !.games[gid] = JoinSeat(NewGameObject, t.sid),
                        !.db = @ \cup {gid},
                        !.rooms[gid] = @ \cup {t.sid}]
        c2 == Emit(c1, Event(c1, "game-joined", t.sid, gid, "", c1.games[gid].players, NoSnap))
    IN  IF t.ret = "pve" THEN Suspend(c2, [t EXCEPT !.g = gid], "CG_joined")
        ELSE Finish(c2)

\* create_game from its first line
CreateGame(c, t) ==
    LET mine == SelectSeq(ListAll(c), LAMBDA gid : HasPlayer(c.games[gid], t.sid)) IN
    IF mine # <<>> THEN CreateReturn(c, [t EXCEPT !.g = Head(mine)])
    ELSE LET gid == c.nextId + 1
             c1 == [c EXCEPT !.nextId = gid,
                             !.games[gid] = JoinSeat(NewGameObject, t.sid),
                             !.db = @ \cup {gid},
                             !.rooms[gid] = @ \cup {t.sid}]
             c2 == Emit(c1, Event(c1, "game-joined", t.sid, gid, "", c1.games[gid].players, NoSnap))
         IN  IF t.ret = "pve" THEN Suspend(c2, [t EXCEPT !.g = gid], "CG_joined")
             ELSE Finish(c2)

\* create_game would construct a Game
CreatesGame(c, sid) == \A gid \in c.db : ~HasPlayer(c.games[gid], sid)

\* pve without its test of the agent endpoint: a deliberately wrong version,
\* which the not-configured property must tell from Pve.
PveWithoutEndpointTest(c, t, configured) ==
    CreateGame(c, [t EXCEPT !.ret = "pve"])

\* pve from its first line
Pve(c, t, configured) ==
    IF ~configured THEN Finish(EmitError(c, t.sid, "ERR_AGENT_NOT_CONFIGURED"))
    ELSE CreateGame(c, [t EXCEPT !.ret = "pve"])

\* ------------------------------------------------------------- matchmaking
\* the game matchmaking picks: the first registered one that is not full and
\* does not hold the caller; 0 when there is none
MatchFor(c, sid) ==
    LET open == SelectSeq(ListAll(c),
                          LAMBDA gid : ~IsFull(c.games[gid]) /\ ~HasPlayer(c.games[gid], sid))
    IN  IF open = <<>> THEN 0 ELSE Head(open)

Matchmaking(c, t) ==
    LET gid == MatchFor(c, t.sid) IN
    IF gid = 0 THEN CreateGame(c, t) ELSE JoinGame(c, [t EXCEPT !.g = gid])

\* ------------------------------------------------ select_piece, place_piece
\* Authorize without the membership test of its first check: a deliberately
\* wrong version, which the authorization property must tell from Authorize.
AuthorizeWithoutMembership(c, t, phase) ==
    IF t.g \notin c.db THEN "ERR_GAME_NOT_FOUND"
    ELSE LET g == c.games[t.g] IN
         IF ~g.started THEN "ERR_GAME_NOT_STARTED"
         ELSE IF CurrentPlayer(g) # t.sid THEN "ERR_NOT_YOUR_TURN"
         ELSE IF g.eng.turn # phase THEN "ERR_INVALID_STATE"
         ELSE ""

\* the four checks both handlers make before forwarding: the error key, or
\* "" when the request goes to the engine
Authorize(c, t, phase) ==
    IF t.g \notin c.db THEN "ERR_GAME_NOT_FOUND"
    ELSE LET g == c.games[t.g] IN
         IF ~HasPlayer(g, t.sid) THEN "ERR_GAME_NOT_FOUND"
         ELSE IF ~g.started THEN "ERR_GAME_NOT_STARTED"
         ELSE IF CurrentPlayer(g) # t.sid THEN "ERR_NOT_YOUR_TURN"
         ELSE IF g.eng.turn # phase THEN "ERR_INVALID_STATE"
         ELSE ""

\* AfterMove without the return that follows the INVALID_MOVE error: a
\* deliberately wrong version, which the rejected-move property must tell from
\* AfterMove.
AfterMoveWithoutReturn(c, t, r) ==
    LET c0 == IF r.ok THEN r.c ELSE EmitError(r.c, t.sid, "ERR_INVALID_MOVE")
        c1 == EmitGameStateUpdate(c0, t.g) IN
    IF c1.games[t.g].pve THEN Suspend(c1, t, "MV_updated") ELSE Finish(c1)

\* the end of both handlers once the engine has answered.  A started game
\* never becomes an agent game (setup_pve refuses a full game), so without an
\* agent nothing is left to do after the state update.
AfterMove(c, t, r) ==
    IF ~r.ok THEN Finish(EmitError(r.c, t.sid, "ERR_INVALID_MOVE"))
    ELSE LET c1 == EmitGameStateUpdate(r.c, t.g) IN
         IF c1.games[t.g].pve THEN Suspend(c1, t, "MV_updated") ELSE Finish(c1)

SelectPiece(c, t, piece, refuse) ==
    LET key == Authorize(c, t, "CHOICE") IN
    IF key # "" THEN Finish(EmitError(c, t.sid, key))
    ELSE AfterMove(c, t, GameChoosePiece(c, t.g, piece, refuse))

PlacePiece(c, t, cell, refuse) ==
    LET key == Authorize(c, t, "PLACEMENT") IN
    IF key # "" THEN Finish(EmitError(c, t.sid, key))
    ELSE AfterMove(c, t, GamePlacePiece(c, t.g, cell, refuse))

\* either handler resumed after its state update
MoveUpdated(c, t) ==
    LET g == c.games[t.g] IN
    IF g.pve /\ CurrentPlayer(g) # t.sid THEN AgentTurn(c, t) ELSE Finish(c)

\* ----------------------------------------------------------------- actions
NoStep == [act |-> "init", sid |-> None, g |-> 0, exc |-> "none", kind |-> "", arg |-> 0, noop |-> FALSE]

\* act: the request handled or the point a handler was resumed at; kind: the
\* agent's answer; arg: the piece or cell of a move request; exc: the
\* exception that ended the handler, if any; noop: the step changed nothing
\* the server keeps (set by Commit)
Step(act, sid, g, exc, kind, arg) ==
    [act |-> act, sid |-> sid, g |-> g, exc |-> exc, kind |-> kind, arg |-> arg,
     noop |-> FALSE]

Running == BagToSet(tasks)

\* A block has run with result r: its writes become the state, and the
\* handler is kept if it is suspended.  old is the task that was resumed
\* (NoTask for a new request).
\*
\* A request that is answered without changing anything the server keeps (a
\* rejection, a leave by a client seated nowhere) leaves the server exactly
\* where it was, so whatever can follow it can follow the state before it as
\* well.  Such a step is recorded (last.noop) and not explored further.
Commit(r, old, step) ==
    LET rest == IF old.pc = "done" THEN tasks ELSE tasks (-) SetToBag({old})
        same == /\ old.pc = "done" /\ r.t.pc = "done"
                /\ r.c.games = games /\ r.c.db = db /\ r.c.rooms = rooms
                /\ r.c.nextId = nextId /\ r.c.sent = startedSent
    IN
    /\ ~last.noop
    /\ r.t.pc # "done" => BagCardinality(rest) < MaxTasks
    /\ games' = r.c.games
    /\ nextId' = r.c.nextId
    /\ db' = r.c.db
    /\ rooms' = r.c.rooms
    /\ startedSent' = r.c.sent
    /\ emitted' = r.c.out
    /\ tasks' = IF r.t.pc = "done" THEN rest ELSE rest (+) SetToBag({r.t})
    /\ last' = [step EXCEPT !.noop = same /\ step.act # "disconnect"]
    /\ UNCHANGED <<agent, strict, registry>>

Request(r, act, sid, g, arg) ==
    /\ sid \in connected
    /\ Commit(r, NoTask, Step(act, sid, g, r.exc, "", arg))
    /\ UNCHANGED connected

CanCreate(sid) == CreatesGame(Ctx, sid) => nextId < MaxGames

NewGameRequest(sid) ==
    /\ CanCreate(sid)
    /\ Request(CreateGame(Ctx, NewTask(sid)), "new-game", sid, 0, 0)

LeaveGameRequest(sid) ==
    Request(LeaveGames(Ctx, NewTask(sid)), "leave-game", sid, 0, 0)

Disconnect(sid) ==
    /\ sid \in connected
    /\ connected' = connected \ {sid}
    /\ LET r == LeaveGames(Ctx, NewTask(sid))
       IN  Commit(r, NoTask, Step("disconnect", sid, 0, r.exc, "", 0))

PveRequest(sid) ==
    /\ agent => CanCreate(sid)
    /\ Request(Pve(Ctx, NewTask(sid), agent), "pve", sid, 0, 0)

MatchmakingRequest(sid) ==
    /\ MatchFor(Ctx, sid) = 0 => CanCreate(sid)
    /\ Request(Matchmaking(Ctx, NewTask(sid)), "matchmaking", sid, 0, 0)

JoinGameRequest(sid, gid) ==
    Request(JoinGame(Ctx, [NewTask(sid) EXCEPT !.g = gid]), "join-game", sid, gid, 0)

StartedGames == {gid \in GameIds : games[gid].started}

StartGameRequest(sid, gid) ==
    /\ games[gid].started \/ Cardinality(StartedGames) < MaxStarted
    /\ \E swap \in BOOLEAN :
        Request(StartGame(Ctx, [NewTask(sid) EXCEPT !.g = gid], swap),
                "start-game", sid, gid, 0)

SelectPieceRequest(sid, gid, piece) ==
        Request(SelectPiece(Ctx, [NewTask(sid) EXCEPT !.g = gid], piece, strict),
                "select-piece", sid, gid, piece)

PlacePieceRequest(sid, gid, cell) ==
        Request(PlacePiece(Ctx, [NewTask(sid) EXCEPT !.g = gid], cell, strict),
                "place-piece", sid, gid, cell)

\* a handler suspended at an emit goes on
Resume(t) ==
    /\ t.pc \in {"LG_left", "LG_notified", "JG_joined", "CG_joined", "SG_started",
                 "SG_error", "SG_updated", "MV_updated"}
    /\ LET r == CASE t.pc = "LG_left"     -> LeaveGameLeft(Ctx, t)
                  [] t.pc = "LG_notified" -> LeaveNext(Ctx, t)
                  [] t.pc = "JG_joined"   -> JoinGameJoined(Ctx, t)
                  [] t.pc = "CG_joined"   -> CreateReturn(Ctx, t)
                  [] t.pc = "SG_started"  -> StartGameStarted(Ctx, t)
                  [] t.pc = "SG_error"    -> PveAfterStart(Ctx, t)
                  [] t.pc = "SG_updated"  -> PveAfterStart(Ctx, t)
                  [] OTHER                -> MoveUpdated(Ctx, t)
       IN  Commit(r, t, Step(t.pc, t.sid, IF t.pc \in {"LG_left", "LG_notified"} THEN t.lg ELSE t.g,
                             r.exc, "", 0))
    /\ UNCHANGED connected

Answers == {"ok"} \cup Failures

\* the health probe of setup_pve is answered
HealthAnswer(t) ==
    /\ t.pc = "PVE_health"
    /\ games[t.g].started \/ Cardinality(StartedGames) < MaxStarted
    /\ \E kind \in Answers, swap \in BOOLEAN :
         LET r == PveHealthResume(Ctx, t, kind, swap)
         IN  Commit(r, t, Step("PVE_health", t.sid, t.g, r.exc, kind, 0))
    /\ UNCHANGED connected

OrDummy(S) == IF S = {} THEN {NoPiece} ELSE S

\* choose-initial-piece is answered
InitialAnswer(t) ==
    /\ t.pc = "AT_initial"
    /\ \E kind \in Answers :
       \E piece \in IF kind = "ok" THEN Pieces ELSE {NoPiece} :
       \E rp \in IF AgentCallRaises(kind) = "RuntimeError"
                 THEN OrDummy(games[t.g].eng.avail) ELSE {NoPiece} :
         LET r == AgentInitialResume(Ctx, t, kind, piece, rp, strict)
         IN  Commit(r, t, Step("AT_initial", t.sid, t.g, r.exc, kind, 0))
    /\ UNCHANGED connected

\* complete-turn is answered
CompleteAnswer(t) ==
    /\ t.pc = "AT_complete"
    /\ \E kind \in Answers :
       \E cell \in IF kind = "ok" THEN Cells ELSE {NoPiece} :
       \E piece \in IF kind = "ok" THEN Pieces \cup {NoPiece} ELSE {NoPiece} :
       \E rc \in IF AgentCallRaises(kind) = "RuntimeError"
                 THEN OrDummy(AvailableCells(games[t.g].eng)) ELSE {NoPiece} :
       \E rp \in IF AgentCallRaises(kind) = "RuntimeError"
                 THEN OrDummy(games[t.g].eng.avail) ELSE {NoPiece} :
         LET r == AgentCompleteResume(Ctx, t, kind, cell, piece, rc, rp, strict)
         IN  Commit(r, t, Step("AT_complete", t.sid, t.g, r.exc, kind, 0))
    /\ UNCHANGED connected

\* calls on the registry by itself
NoResult == [op |-> "none", key |-> None, val |-> None, exc |-> "none", ret |-> None]

Called(op, k, v, r) ==
    /\ store' = r.data
    /\ result' = [op |-> op, key |-> k, val |-> v, exc |-> r.exc, ret |-> r.ret]
    /\ UNCHANGED <<games, nextId, db, rooms, connected, agent, strict, tasks, emitted, last,
                   startedSent>>

CreateCall(k, v) == Called("create", k, v, DbCreate(store, k, v)) /\ UNCHANGED snapshot
ReadCall(k) == Called("read", k, None, DbRead(store, k)) /\ UNCHANGED snapshot
UpdateCall(k, v) == Called("update", k, v, DbUpdate(store, k, v)) /\ UNCHANGED snapshot
DeleteCall(k) == Called("delete", k, None, DbDelete(store, k)) /\ UNCHANGED snapshot
ListAllCall ==
    /\ Called("list_all", None, None, [exc |-> "none", data |-> store, ret |-> None])
    /\ snapshot' = DbListAll(store)

Init ==
    /\ games = [gid \in GameIds |-> NewGameObject]
    /\ nextId = 0
    /\ db = {}
    /\ rooms = [gid \in GameIds |-> {}]
    /\ connected = Clients
    /\ agent \in BOOLEAN
    /\ strict \in BOOLEAN
    /\ tasks = EmptyBag
    /\ emitted = <<>>
    /\ last = NoStep
    /\ startedSent = [gid \in GameIds |-> 0]
    /\ store = NoData
    /\ snapshot = NoCopy
    /\ result = NoResult

Next ==
    \/ \E sid \in Clients : NewGameRequest(sid)
    \/ \E sid \in Clients : LeaveGameRequest(sid)
    \/ \E sid \in Clients : Disconnect(sid)
    \/ \E sid \in Clients : PveRequest(sid)
    \/ \E sid \in Clients : MatchmakingRequest(sid)
    \/ \E sid \in Clients, gid \in GameIds : JoinGameRequest(sid, gid)
    \/ \E sid \in Clients, gid \in GameIds : StartGameRequest(sid, gid)
    \/ \E sid \in Clients, gid \in GameIds, piece \in Pieces : SelectPieceRequest(sid, gid, piece)
    \/ \E sid \in Clients, gid \in GameIds, cell \in Cells : PlacePieceRequest(sid, gid, cell)
    \/ \E t \in Running : Resume(t)
    \/ \E t \in Running : HealthAnswer(t)
    \/ \E t \in Running : InitialAnswer(t)
    \/ \E t \in Running : CompleteAnswer(t)

Spec == Init /\ [][Next]_vars

\* ------------------------------------------------------------------ slices
\* The same server under restricted environments, each small enough to
\* explore completely.  Every behaviour of a slice is a behaviour of Spec.

\* The lobby: sessions are created, joined, started and left; nobody moves
\* (the engine is never asked, so one value of strict stands for both) and no
\* agent endpoint is configured.
InitLobby == Init /\ agent = FALSE /\ strict = TRUE

NextLobby ==
    \/ \E sid \in Clients : NewGameRequest(sid)
    \/ \E sid \in Clients : LeaveGameRequest(sid)
    \/ \E sid \in Clients : Disconnect(sid)
    \/ \E sid \in Clients : PveRequest(sid)
    \/ \E sid \in Clients : MatchmakingRequest(sid)
    \/ \E sid \in Clients, gid \in GameIds : JoinGameRequest(sid, gid)
    \/ \E sid \in Clients, gid \in GameIds : StartGameRequest(sid, gid)
    \/ \E t \in Running : Resume(t)

SpecLobby == InitLobby /\ [][NextLobby]_vars

\* Two humans play: one session is created, joined and started, pieces are
\* selected and placed; no leave-game or disconnect arrives and no agent
\* endpoint is configured.
NextPlay ==
    \/ \E sid \in Clients : nextId = 0 /\ NewGameRequest(sid)
    \/ \E sid \in Clients, gid \in GameIds : JoinGameRequest(sid, gid)
    \/ \E sid \in Clients, gid \in GameIds : StartGameRequest(sid, gid)
    \/ \E sid \in Clients, gid \in GameIds, piece \in Pieces : SelectPieceRequest(sid, gid, piece)
    \/ \E sid \in Clients, gid \in GameIds, cell \in Cells : PlacePieceRequest(sid, gid, cell)
    \/ \E t \in Running : Resume(t)

InitPlay == Init /\ agent = FALSE

SpecPlay == InitPlay /\ [][NextPlay]_vars

\* One human plays the agent: the only requests are those of one client, who
\* asks for agent games, moves, starts, leaves and disconnects.
Human == CHOOSE sid \in Clients : TRUE

InitAgent == Init /\ agent = TRUE

NextAgent ==
    \/ PveRequest(Human)
    \/ LeaveGameRequest(Human)
    \/ Disconnect(Human)
    \/ \E gid \in GameIds : StartGameRequest(Human, gid)
    \/ \E gid \in GameIds, piece \in Pieces : SelectPieceRequest(Human, gid, piece)
    \/ \E gid \in GameIds, cell \in Cells : PlacePieceRequest(Human, gid, cell)
    \/ \E t \in Running : Resume(t)
    \/ \E t \in Running : HealthAnswer(t)
    \/ \E t \in Running : InitialAnswer(t)
    \/ \E t \in Running : CompleteAnswer(t)

SpecAgent == InitAgent /\ [][NextAgent]_vars

\* The same, with the client waiting for each request to be handled to its
\* end before sending the next one: no two handlers are ever in flight.
Idle == tasks = EmptyBag

NextAgentSerial ==
    \/ Idle /\ PveRequest(Human)
    \/ Idle /\ LeaveGameRequest(Human)
    \/ Idle /\ Disconnect(Human)
    \/ \E gid \in GameIds : Idle /\ StartGameRequest(Human, gid)
    \/ \E gid \in GameIds, piece \in Pieces : Idle /\ SelectPieceRequest(Human, gid, piece)
    \/ \E gid \in GameIds, cell \in Cells : Idle /\ PlacePieceRequest(Human, gid, cell)
    \/ \E t \in Running : Resume(t)
    \/ \E t \in Running : HealthAnswer(t)
    \/ \E t \in Running : InitialAnswer(t)
    \/ \E t \in Running : CompleteAnswer(t)

SpecAgentSerial == InitAgent /\ [][NextAgentSerial]_vars

\* The registry class alone: any sequence of calls on one InMemoryDB.
NextDb ==
    \/ \E k \in Keys, v \in Values : CreateCall(k, v)
    \/ \E k \in Keys : ReadCall(k)
    \/ \E k \in Keys, v \in Values : UpdateCall(k, v)
    \/ \E k \in Keys : DeleteCall(k)
    \/ ListAllCall

SpecDb == InitLobby /\ [][NextDb]_vars

\* ------------------------------------------------------------------ claims
Seated(sid) == {gid \in db : HasPlayer(games[gid], sid)}

Updates == {i \in 1..Len(emitted) : emitted[i].ev = "game-state-updated"}

Finished(g) == g.started /\ EngineOver(g.eng)

MoveRequest == {"select-piece", "place-piece"}

PhaseOf(act) == IF act = "select-piece" THEN "CHOICE" ELSE "PLACEMENT"

ErrorTo(sid, key) ==
    [ev |-> "error", to |-> sid, room |-> 0, key |-> key, players |-> <<>>,
     snap |-> NoSnap, live |-> FALSE]

\* C1: in every reachable state a client identity is seated in at most one
\* registered session, whatever the interleaving of the handlers.
C1_AtMostOneSession == \A sid \in Clients : Cardinality(Seated(sid)) <= 1

\* C2: no game-state-updated event is broadcast for an agent session after
\* the leave of its human occupant has removed it from the registry.
C2_NoUpdateAfterAgentSessionDeleted ==
    \A i \in Updates : games[emitted[i].room].pve => emitted[i].live

\* C3: once a session is finished (a winner, or a full board), no step changes
\* its board, current piece, available pieces, phase, actor or winner.
C3_FinishedIsTerminal ==
    [][\A gid \in GameIds : Finished(games[gid]) => games'[gid].eng = games[gid].eng]_vars

\* The error the claimed precedence gives a move request, "" when it is to be
\* forwarded to the engine: stated on the state before the request.
ExpectedKey(sid, gid, phase) ==
    CASE gid \notin db \/ ~HasPlayer(games[gid], sid) -> "ERR_GAME_NOT_FOUND"
      [] gid \in db /\ HasPlayer(games[gid], sid) /\ ~games[gid].started -> "ERR_GAME_NOT_STARTED"
      [] gid \in db /\ HasPlayer(games[gid], sid) /\ games[gid].started
           /\ CurrentPlayer(games[gid]) # sid -> "ERR_NOT_YOUR_TURN"
      [] gid \in db /\ HasPlayer(games[gid], sid) /\ games[gid].started
           /\ CurrentPlayer(games[gid]) = sid /\ games[gid].eng.turn # phase -> "ERR_INVALID_STATE"
      [] OTHER -> ""

\* C4: a select-piece (place-piece) request reaches the engine only from a
\* seated current actor of a registered, started session in phase CHOICE
\* (PLACEMENT); otherwise the caller alone gets exactly one error, by the
\* precedence GAME_NOT_FOUND, GAME_NOT_STARTED, NOT_YOUR_TURN, INVALID_STATE,
\* the session state is unchanged and nothing goes to the room.
C4_MoveAuthorization ==
    [][last'.act \in MoveRequest =>
         LET key == ExpectedKey(last'.sid, last'.g, PhaseOf(last'.act)) IN
         IF key # ""
         THEN /\ emitted' = <<ErrorTo(last'.sid, key)>>
              /\ games' = games /\ db' = db /\ rooms' = rooms /\ tasks' = tasks
         ELSE \A i \in 1..Len(emitted') :
                 emitted'[i].ev = "error" => emitted'[i].key = "ERR_INVALID_MOVE"]_vars

C4_Witness ==
    /\ last.act = "place-piece"
    /\ emitted = <<ErrorTo(last.sid, "ERR_INVALID_STATE")>>

\* C5: over any sequence of start-game requests, game-started is emitted to a
\* session's room at most once.
C5_GameStartedOnce == \A gid \in GameIds : startedSent[gid] <= 1

\* C6: every session has exactly 2 seats, and once a session is started no
\* step empties, fills or reorders its seats.
C6_SeatsFixedOnceActive ==
    [][\A gid \in GameIds :
          /\ Len(games'[gid].players) = 2
          /\ games[gid].started => games'[gid].players = games[gid].players]_vars

\* C7: whenever no handler is suspended, every registered session that is
\* started and not finished has a current actor, and it is the identity in
\* one of the two seats.
C7_ActiveHasActor ==
    tasks = EmptyBag =>
        \A gid \in db :
            (games[gid].started /\ ~EngineOver(games[gid].eng))
                => /\ CurrentPlayer(games[gid]) # None
                   /\ HasPlayer(games[gid], CurrentPlayer(games[gid]))

\* C8: whatever way the agent's call fails, the agent turn ends normally with
\* a fallback move applied and the state update emitted.
C8_EveryFailureFallsBack ==
    (last.act \in {"AT_initial", "AT_complete"} /\ last.kind \in Failures)
        => (last.exc = "none" /\ Updates # {})

\* C9: when complete-turn times out the session advances by the fallback move
\* and the room gets exactly one state update, showing the state after it.
C9_TimeoutOneUpdate ==
    (last.act = "AT_complete" /\ last.kind = "timeout")
        => /\ last.exc = "none"
           /\ Len(emitted) = 1
           /\ emitted[1].ev = "game-state-updated"
           /\ emitted[1].room = last.g
           /\ emitted[1].snap = Snapshot(games[last.g])

\* C10: when the current actor, in the right phase, selects a piece that is
\* not available (places on an occupied cell), the sender alone gets
\* INVALID_MOVE, nothing is broadcast, the session is unchanged and no agent
\* turn is started.
C10_RejectedMove ==
    [][(/\ last'.act \in MoveRequest
        /\ ExpectedKey(last'.sid, last'.g, PhaseOf(last'.act)) = ""
        /\ IF last'.act = "select-piece"
           THEN last'.arg \notin games[last'.g].eng.avail
           ELSE games[last'.g].eng.board[last'.arg] # NoPiece)
       => /\ emitted' = <<ErrorTo(last'.sid, "ERR_INVALID_MOVE")>>
          /\ games' = games /\ db' = db /\ rooms' = rooms /\ tasks' = tasks]_vars

C10_Witness ==
    /\ last.act = "select-piece"
    /\ games[last.g].pve
    /\ CurrentPlayer(games[last.g]) = last.sid
    /\ games[last.g].eng.turn = "CHOICE"
    /\ last.arg \notin games[last.g].eng.avail
    /\ emitted = <<ErrorTo(last.sid, "ERR_INVALID_MOVE")>>

\* The suspended handler that the step resumes: the one task with fewer
\* copies after the step.
Resumed(t) == CopiesIn(t, tasks') < CopiesIn(t, tasks)

\* t is the only handler of its client in flight
Alone(t) == \A u \in BagToSet(tasks) : u.sid = t.sid => (u = t /\ CopiesIn(t, tasks) = 1)

\* C11: a join-game request either fails at once with GAME_NOT_FOUND (unknown
\* id) or GAME_FULL (both seats taken), leaving everything unchanged, or it
\* succeeds: resumed after an awaited emit (while no other handler of the same
\* client is in flight), the join handler raises nothing, and the caller is
\* seated in the target session, which is registered.
C11_JoinOutcome ==
    [][/\ last'.act = "join-game" =>
            IF last'.g \notin db
            THEN /\ emitted' = <<ErrorTo(last'.sid, "ERR_GAME_NOT_FOUND")>>
                 /\ games' = games /\ db' = db /\ rooms' = rooms /\ tasks' = tasks
            ELSE IF IsFull(games[last'.g])
            THEN /\ emitted' = <<ErrorTo(last'.sid, "ERR_GAME_FULL")>>
                 /\ games' = games /\ db' = db /\ rooms' = rooms /\ tasks' = tasks
            ELSE last'.exc = "none"
       /\ \A t \in BagToSet(tasks) :
            (t.ret = "join" /\ Alone(t) /\ Resumed(t)) =>
                /\ last'.exc = "none"
                /\ HasPlayer(games'[t.g], t.sid) /\ t.g \in db']_vars

\* the error a start-game request must get on the state before it, "" when it
\* must go through
StartKey(sid, gid) ==
    IF gid \notin db THEN "ERR_GAME_NOT_FOUND"
    ELSE IF ~HasPlayer(games[gid], sid) THEN "ERR_NOT_IN_GAME"
    ELSE IF ~IsFull(games[gid]) THEN "ERR_NO_OPPONENT"
    ELSE ""

\* C12: a start-game request on an unknown id, by a non-member or with a free
\* seat gets GAME_NOT_FOUND, NOT_IN_GAME, NO_OPPONENT and changes nothing;
\* otherwise a session not yet started becomes started with the same two
\* identities seated, and the room receives game-started and then, from the
\* same handler, a state update with phase CHOICE and a current actor that is
\* one of the two seated identities.
C12_StartGame ==
    [][/\ last'.act = "start-game" =>
            LET key == StartKey(last'.sid, last'.g)
                g == games[last'.g]
                h == games'[last'.g] IN
            IF key # ""
            THEN /\ emitted' = <<ErrorTo(last'.sid, key)>>
                 /\ games' = games /\ db' = db /\ rooms' = rooms /\ tasks' = tasks
            ELSE ~g.started =>
                 /\ h.started
                 /\ {h.players[1], h.players[2]} = {g.players[1], g.players[2]}
                 /\ h.eng = g.eng
                 /\ Len(emitted') = 1
                 /\ emitted'[1].ev = "game-started" /\ emitted'[1].room = last'.g
       /\ \A t \in BagToSet(tasks) :
            (/\ t.pc = "SG_started" /\ t.ret = "none" /\ Resumed(t)
             /\ startedSent[t.g] = 1)
            => /\ Len(emitted') = 1
               /\ emitted'[1].ev = "game-state-updated" /\ emitted'[1].room = t.g
               /\ emitted'[1].snap.turn = "CHOICE"
               /\ emitted'[1].snap.actor # None
               /\ HasPlayer(games[t.g], emitted'[1].snap.actor)]_vars

\* C13: whenever no handler is suspended, no registered session has both
\* seats empty; a leave that has emptied a session takes it out of the
\* registry, and a leave that has left an occupant in a registered session
\* without agent keeps it registered and emits player-left to its room.
C13_NoEmptySession ==
    [][/\ tasks' = EmptyBag => \A gid \in db' : ~IsEmpty(games'[gid])
       /\ \A t \in BagToSet(tasks) :
            (t.pc = "LG_left" /\ Resumed(t)) =>
                IF IsEmpty(games[t.lg]) THEN t.lg \notin db'
                ELSE (~games[t.lg].pve /\ t.lg \in db) =>
                        /\ t.lg \in db'
                        /\ Len(emitted') >= 1
                        /\ emitted'[1].ev = "player-left"
                        /\ emitted'[1].room = t.lg]_vars

C13_Witness ==
    /\ last.act = "LG_left"
    /\ tasks = EmptyBag
    /\ IsEmpty(games[last.g])
    /\ last.g \notin db
    /\ last.exc = "none"

\* C14: a new-game request of a client that occupies a registered session
\* changes neither the registry nor any seat; of a client that occupies none,
\* it registers exactly one new session, with the client in seat 0 and seat 1
\* empty, and changes no other session.
C14_NewGameIdempotent ==
    [][last'.act = "new-game" =>
         IF Seated(last'.sid) # {}
         THEN games' = games /\ db' = db /\ rooms' = rooms /\ tasks' = tasks
         ELSE \E gid \in GameIds \ db :
                /\ db' = db \cup {gid}
                /\ games'[gid].players = <<last'.sid, None>>
                /\ ~games'[gid].started
                /\ \A other \in GameIds \ {gid} : games'[other] = games[other]]_vars

C14_Witness ==
    /\ last.act = "new-game"
    /\ last.noop
    /\ Seated(last.sid) # {}
    /\ Cardinality(db) = 1

\* C15: a pve request while no agent endpoint is configured sends
\* AGENT_NOT_CONFIGURED to the sender alone and changes no session, seat,
\* lifecycle or registry entry, and leaves no handler behind.
C15_PveNotConfigured ==
    [][(last'.act = "pve" /\ ~agent) =>
          /\ emitted' = <<ErrorTo(last'.sid, "ERR_AGENT_NOT_CONFIGURED")>>
          /\ games' = games /\ db' = db /\ rooms' = rooms /\ nextId' = nextId
          /\ tasks' = tasks /\ last'.exc = "none"]_vars

C15_Witness ==
    /\ last.act = "pve"
    /\ ~agent
    /\ emitted = <<ErrorTo(last.sid, "ERR_AGENT_NOT_CONFIGURED")>>
    /\ Seated(last.sid) # {}

\* C16: an agent turn that resumes from its network call when its session is
\* no longer registered, or when the agent is no longer the current actor,
\* changes no session state and raises nothing.
C16_AgentRevalidates ==
    [][\A t \in BagToSet(tasks) :
          (/\ t.pc \in {"AT_initial", "AT_complete"} /\ Resumed(t)
           /\ (t.g \notin db \/ CurrentPlayer(games[t.g]) # AgentId))
          => (games' = games /\ last'.exc = "none")]_vars

\* the positions at which a handler has changed its session and still has a
\* broadcast or an agent turn to come
MidOperation == {"SG_started", "SG_updated", "MV_updated", "AT_initial", "AT_complete"}

\* C17: while a handler is between a change it made to a session and its last
\* broadcast, no other handler changes that session's seats, lifecycle or
\* engine state or takes it out of the registry.
C17_Serialized ==
    [][\A t \in BagToSet(tasks) :
          (t.pc \in MidOperation /\ ~Resumed(t))
          => /\ games'[t.g] = games[t.g]
             /\ (t.g \in db') = (t.g \in db)]_vars

\* the failures of the agent's call that agent_turn answers with the fallback
FallbackKinds == {kind \in Failures : AgentCallRaises(kind) = "RuntimeError"}

\* C18: after the complete-turn fallback has placed its random cell, the agent
\* turn returns normally, with a next piece selected exactly when the game is
\* not finished (no winner and a free cell left).
C18_FallbackAtGameEnd ==
    (last.act = "AT_complete" /\ last.kind \in FallbackKinds)
        => /\ last.exc = "none"
           /\ (games[last.g].eng.piece # NoPiece) = ~EngineOver(games[last.g].eng)

\* C19: create on an occupied key fails and leaves the store as it was, delete
\* on an absent key fails and leaves the store as it was, read returns the
\* stored value or nothing, list_all returns the items of the store, and the
\* dict an earlier list_all returned shows the same items after any later
\* create or delete.
C19_RegistryContract ==
    [][/\ result'.op = "create" =>
            IF store[result'.key] # None
            THEN result'.exc = "KeyError" /\ store' = store
            ELSE result'.exc = "none" /\ store' = [store EXCEPT ![result'.key] = result'.val]
       /\ result'.op = "delete" =>
            IF store[result'.key] = None
            THEN result'.exc = "KeyError" /\ store' = store
            ELSE result'.exc = "none" /\ store' = [store EXCEPT ![result'.key] = None]
       /\ result'.op = "read" =>
            result'.exc = "none" /\ result'.ret = store[result'.key] /\ store' = store
       /\ result'.op = "list_all" =>
            snapshot'.taken /\ View(snapshot', store') = store /\ store' = store
       /\ (result'.op \in {"create", "delete"} /\ snapshot.taken) =>
            View(snapshot', store') = View(snapshot, store)]_vars

C19_Witness ==
    /\ result.op = "delete"
    /\ result.exc = "none"
    /\ snapshot.taken
    /\ View(snapshot, store)[result.key] # None
    /\ store[result.key] = None

\* C20: leave_games never calls delete for a session id that is no longer in
\* the registry: no resumed leave ends in the registry's KeyError, and a
\* session that leaves the registry was in it.
C20_DeletedOnce ==
    [][\A t \in BagToSet(tasks) :
          (t.pc = "LG_left" /\ Resumed(t) /\ IsEmpty(games[t.lg])) =>
              /\ t.lg \in db
              /\ last'.exc # "KeyError"]_vars

\* C21: whenever no handler is suspended, every session object in which a
\* human client is seated is in the registry under its id.
C21_SeatedIsRegistered ==
    tasks = EmptyBag =>
        \A gid \in GameIds : \A sid \in Clients :
            HasPlayer(games[gid], sid) => gid \in db

\* C22: in an agent session whose human stays seated, an agent turn that
\* returns normally leaves the session finished or with the human as the
\* current actor.
C22_AgentTurnHandsOver ==
    [][(/\ last'.act \in {"AT_initial", "AT_complete"}
        /\ last'.exc = "none"
        /\ last'.g \in db'
        /\ \E sid \in Clients : HasPlayer(games'[last'.g], sid))
       => \/ EngineOver(games'[last'.g].eng)
          \/ CurrentPlayer(games'[last'.g]) \in Clients]_vars

====
